---- MODULE Spec2Model ----
(***************************************************************************)
(* PlaylistDownloaderBot: the conversation handlers (start,                *)
(* language_selection, get_artist, download_song, cancel), the YouTube     *)
(* locator search_youtube and the downloader download_youtube_audio.       *)
(*                                                                         *)
(* Text is a sequence of one-character strings.  The outside world (the    *)
(* Telegram transport, Spotify, yt-dlp) is a script of outcomes: the k-th  *)
(* call of a kind gets the k-th outcome of its script.  Every function of  *)
(* the bot is an operator from its arguments and the scripts to its        *)
(* result, the calls it made and the files it left.                        *)
(***************************************************************************)
EXTENDS Integers, Sequences, FiniteSets, TLC

VARIABLES
    conv,        \* ConversationHandler: chat -> conversation state
    user_data,   \* the global session map: chat -> session dict
    disk,        \* files under TEMP_DIR: path -> size in bytes
    last,        \* what the last handler run did (calls, replies, result)
    locIn,       \* unit run of search_youtube: arguments and script
    locOut,      \* unit run of search_youtube: result
    fetIn,       \* unit run of download_youtube_audio: arguments and script
    fetOut,      \* unit run of download_youtube_audio: result
    eqIn,        \* twin run of get_artist and download_song: inputs
    eqOut,       \* twin run of get_artist and download_song: results
    prev         \* the handler run before the last one: chat, text, urls fetched

vars == <<conv, user_data, disk, last, locIn, locOut, fetIn, fetOut, eqIn, eqOut, prev>>

(***************************************************************************)
(* Program constants                                                       *)
(***************************************************************************)
MAX_FILE_SIZE == 52428800
SPOTIFY_RETRIES == 3
YT_RETRIES == 3
TOP_TRACKS == 10
YT_SEARCH_LIMIT == 5

(***************************************************************************)
(* Bounds of the model                                                     *)
(***************************************************************************)
MaxEntries == 2        \* search results the source provider returns per query
MaxSearchScript == 2   \* scripted search outcomes per locate (then: no results)
MaxTracks == 2         \* top tracks the metadata provider returns
MaxFetchScript == 2    \* scripted download outcomes per fetch (then: failures)
MaxReplyFail == 3      \* reply calls of one handler run that may be made to fail
MaxSpScript == 2       \* scripted sp.search outcomes per run (then: network errors)
MaxTopTracks == 11     \* top tracks the provider returns when a playlist is built

Min(a, b) == IF a < b THEN a ELSE b
TakeAll(s, n) == s

Take(s, n) == SubSeq(s, 1, Min(n, Len(s)))
Range(s) == {s[i] : i \in 1..Len(s)}
SeqsUpTo(S, n) == UNION {[1..k -> S] : k \in 0..n}

(***************************************************************************)
(* The name asyncio is used at lines 144, 145, 185 and 243 and imported    *)
(* nowhere: evaluating asyncio.sleep(...) raises NameError.                *)
(***************************************************************************)
SleepRaisesIfImported == FALSE

SleepRaises == TRUE

(***************************************************************************)
(* search_youtube                                                          *)
(***************************************************************************)
search_queries(song_name, artist) ==
    << song_name \o <<" ">> \o artist \o <<" official video">>,
       song_name \o <<" ">> \o artist \o <<" official audio">>,
       song_name \o <<" ">> \o artist \o <<" official">>,
       song_name \o <<" ">> \o artist,
       song_name \o <<" audio ">> \o artist,
       song_name \o <<" by ">> \o artist >>

\* One outcome of ydl.extract_info("ytsearch5:..."): it raises ("error", or
\* "blocked" when the message carries the bot-detection text) or returns
\* entries; probes[i] is what the playback probe of entry i will do.
ProbeOutcomes == {"ok", "fail", "blocked"}
SearchOutcomes ==
    {[kind |-> k, probes |-> <<>>] : k \in {"error", "blocked"}}
    \cup {[kind |-> "entries", probes |-> p] : p \in SeqsUpTo(ProbeOutcomes, MaxEntries)}

NoResults == [kind |-> "entries", probes |-> <<>>]
ScriptAt(script, k) == IF k <= Len(script) THEN script[k] ELSE NoResults

\* The URL of entry e of the results of a query.
EntryUrl(query, e) == [query |-> query, entry |-> e]
NoUrl == [query |-> <<>>, entry |-> 0]

\* Lines 116-134: the probes of one result list, in order, up to the first
\* that does not raise.  A call is [op, q, n, r, of]: a search of query number
\* q, attempt n, that gave of entries; or the probe of entry n of of.
RECURSIVE ProbeEntriesAll(_, _, _, _)
ProbeEntriesAll(qi, query, probes, e) ==
    IF e > Len(probes) THEN <<>>
    ELSE <<[op |-> "probe", q |-> qi, n |-> e, r |-> probes[e], of |-> Len(probes)]>>
         \o ProbeEntriesAll(qi, query, probes, e + 1)

RECURSIVE ProbeEntries(_, _, _, _)
ProbeEntries(qi, query, probes, e) ==
    IF e > Len(probes) THEN <<>>
    ELSE LET call == [op |-> "probe", q |-> qi, n |-> e, r |-> probes[e], of |-> Len(probes)]
         IN IF probes[e] = "ok" THEN <<call>>
            ELSE <<call>> \o ProbeEntries(qi, query, probes, e + 1)

\* Lines 109-147 from query number qi, attempt number attempt, after k search
\* calls.  out is "url" (return url), "none" (return None) or "raise".
RECURSIVE YtLoop(_, _, _, _, _)
YtLoop(queries, script, qi, attempt, k) ==
    IF qi > Len(queries)
    THEN [out |-> "none", url |-> NoUrl, calls |-> <<>>]
    ELSE
      LET o == ScriptAt(script, k + 1)
          call == [op |-> "search", q |-> qi, n |-> attempt, r |-> o.kind,
                   of |-> Len(Take(o.probes, YT_SEARCH_LIMIT))]
          Prepend(cs, res) == [res EXCEPT !.calls = cs \o @]
          Raise(cs) == [out |-> "raise", url |-> NoUrl, calls |-> cs]
          \* line 145, then the next query
          NextQuery(cs) ==
              IF SleepRaises THEN Raise(cs)
              ELSE Prepend(cs, YtLoop(queries, script, qi + 1, 0, k + 1))
      IN IF o.kind = "entries"
         THEN LET ps == ProbeEntries(qi, queries[qi], Take(o.probes, YT_SEARCH_LIMIT), 1)
                  hit == ps # <<>> /\ ps[Len(ps)].r = "ok"
              IN IF hit
                 THEN [out |-> "url",
                       url |-> EntryUrl(queries[qi], ps[Len(ps)].n),
                       calls |-> <<call>> \o ps]
                 ELSE NextQuery(<<call>> \o ps)
         ELSE \* lines 137-144
              IF attempt = YT_RETRIES - 1 THEN NextQuery(<<call>>)
              ELSE IF SleepRaises THEN Raise(<<call>>)
              ELSE Prepend(<<call>>, YtLoop(queries, script, qi, attempt + 1, k + 1))

search_youtube(song_name, artist, script) ==
    YtLoop(search_queries(song_name, artist), script, 1, 0, 0)

(***************************************************************************)
(* Text                                                                    *)
(***************************************************************************)
Digits == {"0", "1", "2", "3", "4", "5", "6", "7", "8", "9"}
DigitVal == [c \in Digits |->
    CASE c = "0" -> 0 [] c = "1" -> 1 [] c = "2" -> 2 [] c = "3" -> 3
      [] c = "4" -> 4 [] c = "5" -> 5 [] c = "6" -> 6 [] c = "7" -> 7
      [] c = "8" -> 8 [] c = "9" -> 9]
Letters == {"a", "b", "c"}
Whitespace == {" "}

\* str.strip()
RECURSIVE LStrip(_)
LStrip(s) == IF s # <<>> /\ Head(s) \in Whitespace THEN LStrip(Tail(s)) ELSE s
RECURSIVE RStrip(_)
RStrip(s) ==
    IF s # <<>> /\ s[Len(s)] \in Whitespace THEN RStrip(SubSeq(s, 1, Len(s) - 1)) ELSE s
Strip(s) == RStrip(LStrip(s))

\* int(str): an optional sign and one or more decimal digits, else ValueError.
RECURSIVE DigitsValue(_, _)
DigitsValue(s, acc) ==
    IF s = <<>> THEN acc ELSE DigitsValue(Tail(s), 10 * acc + DigitVal[Head(s)])
ParseInt(text) ==
    LET s == Strip(text)
        signed == s # <<>> /\ Head(s) \in {"-", "+"}
        body == IF signed THEN Tail(s) ELSE s
        ok == body # <<>> /\ \A i \in 1..Len(body) : body[i] \in Digits
        v == IF ok THEN DigitsValue(body, 0) ELSE 0
    IN [ok |-> ok, val |-> IF ok /\ signed /\ Head(s) = "-" THEN 0 - v ELSE v]

\* str.isalnum() of one character
IsAlnum(c) == c \in Letters \cup Digits

\* line 344
SafeName(song_name) ==
    SelectSeq(song_name, LAMBDA c : IsAlnum(c) \/ c \in {" ", "_", "-"})

(***************************************************************************)
(* download_youtube_audio                                                  *)
(***************************************************************************)
\* One outcome of ydl.download([url]): it raises or returns ("done"), having
\* left a file output_path + ext of some size, or no file (ext = "").
FoundExts == <<".m4a", ".webm", ".mp3">>
FileSizes == {MAX_FILE_SIZE, MAX_FILE_SIZE + 1}
DownloadOutcomes ==
    {[kind |-> k, ext |-> "", size |-> 0] : k \in {"raise", "done"}}
    \cup {[kind |-> "raise", ext |-> ".part", size |-> MAX_FILE_SIZE]}
    \cup {[kind |-> "done", ext |-> ".opus", size |-> MAX_FILE_SIZE]}
    \cup {[kind |-> "done", ext |-> ".webm", size |-> MAX_FILE_SIZE]}
    \cup {[kind |-> "done", ext |-> ".m4a", size |-> z] : z \in FileSizes}

NothingFetched == [kind |-> "raise", ext |-> "", size |-> 0]
FetchAt(script, k) == IF k <= Len(script) THEN script[k] ELSE NothingFetched

FilePath(output_name, ext) == [name |-> output_name, ext |-> ext]
NoPath == [name |-> <<>>, ext |-> ""]
WriteFile(d, path, size) == (path :> size) @@ d
RemoveFile(d, path) == [p \in DOMAIN d \ {path} |-> d[p]]

\* lines 173-177: the first of .m4a, .webm, .mp3 that exists
RECURSIVE FirstExisting(_, _, _)
FirstExisting(d, output_name, i) ==
    IF i > Len(FoundExts) THEN NoPath
    ELSE IF FilePath(output_name, FoundExts[i]) \in DOMAIN d
         THEN FilePath(output_name, FoundExts[i])
         ELSE FirstExisting(d, output_name, i + 1)

\* lines 167-186 from attempt number attempt.  out is "path" (return
\* audio_path), "none" (return None) or "raise".
RECURSIVE DlLoop(_, _, _, _)
DlLoop(output_name, script, d, attempt) ==
    IF attempt >= YT_RETRIES
    THEN [out |-> "none", path |-> NoPath, calls |-> <<>>, disk |-> d]
    ELSE
      LET o == FetchAt(script, attempt + 1)
          d1 == IF o.ext = "" THEN d
                ELSE WriteFile(d, FilePath(output_name, o.ext), o.size)
          found == IF o.kind = "done" THEN FirstExisting(d1, output_name, 1) ELSE NoPath
          call == [attempt |-> attempt + 1, r |-> o.kind, ext |-> o.ext,
                   found |-> found # NoPath]
      IN IF found # NoPath
         THEN [out |-> "path", path |-> found, calls |-> <<call>>, disk |-> d1]
         ELSE \* lines 180-185
              IF attempt = YT_RETRIES - 1
              THEN [out |-> "none", path |-> NoPath, calls |-> <<call>>, disk |-> d1]
              ELSE IF SleepRaises
              THEN [out |-> "raise", path |-> NoPath, calls |-> <<call>>, disk |-> d1]
              ELSE LET rest == DlLoop(output_name, script, d1, attempt + 1)
                   IN [rest EXCEPT !.calls = <<call>> \o @]

download_youtube_audio(url, output_name, script, d) ==
    DlLoop(output_name, script, d, 0)

(***************************************************************************)
(* Sessions, replies and the metadata provider                             *)
(***************************************************************************)
\* A session dict: keys is the set of keys it holds.
NewSession(lang) == [keys |-> {"lang"}, lang |-> lang, artist |-> <<>>, songs |-> <<>>]
NoSession == [keys |-> {}, lang |-> "", artist |-> <<>>, songs |-> <<>>]

\* The frame of one handler run: the chat's session dict (has = FALSE when
\* user_data has no entry for the chat), the disk, and the calls made so far.
Frame(ud, d, chat) ==
    [has |-> chat \in DOMAIN ud,
     sess |-> IF chat \in DOMAIN ud THEN ud[chat] ELSE NoSession,
     disk |-> d, replies |-> <<>>, sp |-> <<>>, top |-> <<>>, yt |-> <<>>,
     fetch |-> <<>>, removed |-> <<>>]

\* update.message.reply_text / reply_audio / edit_message_text: the n-th reply
\* call of the run raises when n is in env.fail.
Reply(st, env, kind, path) ==
    [st EXCEPT !.replies =
        Append(@, [kind |-> kind, ok |-> (Len(@) + 1) \notin env.fail, path |-> path,
                   lines |-> <<>>])]
\* The numbered lines of playlist_text, lines 268-270, 322-324 and 378-380.
PlaylistText(songs) == [idx \in 1..Len(songs) |-> [idx |-> idx, song_name |-> songs[idx].name]]
ReplyPlaylist(st, env, songs) ==
    LET r == Reply(st, env, "playlist", NoPath)
    IN [r EXCEPT !.replies[Len(r.replies)].lines = PlaylistText(songs)]
Sent(st) == st.replies[Len(st.replies)].ok
Ret(st, ret) == [st |-> st, ret |-> ret]

\* sp.search: the k-th call raises a RequestException ("neterr"), raises
\* something else ("error"), matches no artist ("none") or one ("found").
SpOutcomes == {"neterr", "error", "none", "found"}
SpAt(script, k) == IF k <= Len(script) THEN script[k] ELSE "neterr"

\* sp.artist_top_tracks: the tracks of the matched artist, in rank order.
DigitChar(i) == CHOOSE c \in Digits : DigitVal[c] = i
RECURSIVE Decimal(_)
Decimal(i) == IF i < 10 THEN <<DigitChar(i)>>
              ELSE Decimal(i \div 10) \o <<DigitChar(i % 10)>>
TrackName(artist, i) == artist \o <<"#">> \o Decimal(i)
TopTracksOf(artist, n) == [i \in 1..n |-> TrackName(artist, i)]
YtScriptAt(scripts, i) == IF i <= Len(scripts) THEN scripts[i] ELSE <<>>

\* "not downloadable_songs", lines 262 and 316
NotAnyNever(songs) == FALSE

NotAny(songs) == songs = <<>>

(***************************************************************************)
(* get_artist                                                              *)
(***************************************************************************)
\* lines 276-279
GaExcept(st, env) ==
    LET r == Reply(st, env, "oops_artist", NoPath)
    IN IF Sent(r) THEN Ret(r, "ARTIST") ELSE Ret(r, "RAISED")

\* lines 250-260
RECURSIVE GaSongLoop(_, _, _, _, _, _)
GaSongLoop(st, env, artist, song_list, i, acc) ==
    IF i > Len(song_list) THEN [exc |-> FALSE, st |-> st, songs |-> acc]
    ELSE
      LET y == search_youtube(song_list[i], artist, YtScriptAt(env.yt, i))
          st1 == [st EXCEPT !.yt = Append(@, [song |-> song_list[i], res |-> y])]
          Skip(s) == LET r == Reply(s, env, "skip_error", NoPath)
                     IN IF Sent(r) THEN GaSongLoop(r, env, artist, song_list, i + 1, acc)
                        ELSE [exc |-> TRUE, st |-> r, songs |-> acc]
      IN IF y.out = "url"
         THEN GaSongLoop(st1, env, artist, song_list, i + 1,
                         Append(acc, [name |-> song_list[i], url |-> y.url]))
         ELSE IF y.out = "none"
         THEN LET r == Reply(st1, env, "skip_not_found", NoPath)
              IN IF Sent(r) THEN GaSongLoop(r, env, artist, song_list, i + 1, acc)
                 ELSE Skip(r)
         ELSE Skip(st1)

\* lines 245-274
GaTracks(st, env, artist) ==
    IF env.top < 0 THEN GaExcept([st EXCEPT !.top = <<env.top>>], env)
    ELSE
      LET st1 == [st EXCEPT !.top = <<env.top>>]
          song_list == Take(TopTracksOf(artist, env.top), TOP_TRACKS)
          l == GaSongLoop(st1, env, artist, song_list, 1, <<>>)
      IN IF l.exc THEN GaExcept(l.st, env)
         ELSE IF NotAny(l.songs)
         THEN LET r == Reply(l.st, env, "no_downloadable", NoPath)
              IN IF Sent(r) THEN Ret(r, "ARTIST") ELSE GaExcept(r, env)
         ELSE LET st2 == [l.st EXCEPT !.sess.songs = l.songs,
                                      !.sess.keys = @ \cup {"songs"}]
                  r == ReplyPlaylist(st2, env, l.songs)
              IN IF Sent(r) THEN Ret(r, "SONG_SELECTION") ELSE GaExcept(r, env)

\* lines 230-243
RECURSIVE GaSearch(_, _, _, _)
GaSearch(st, env, artist, attempt) ==
    IF attempt >= SPOTIFY_RETRIES THEN GaExcept(st, env)
    ELSE
      LET o == SpAt(env.sp, attempt + 1)
          st1 == [st EXCEPT !.sp = Append(@, o)]
      IN CASE o = "none" ->
                LET r == Reply(st1, env, "not_found", NoPath)
                IN IF Sent(r) THEN Ret(r, "ARTIST") ELSE GaExcept(r, env)
           [] o = "found" -> GaTracks(st1, env, artist)
           [] o = "neterr" ->
                IF attempt = SPOTIFY_RETRIES - 1
                THEN LET r == Reply(st1, env, "network_issue", NoPath)
                     IN IF Sent(r) THEN Ret(r, "ARTIST") ELSE GaExcept(r, env)
                ELSE IF SleepRaises THEN GaExcept(st1, env)
                ELSE GaSearch(st1, env, artist, attempt + 1)
           [] OTHER -> GaExcept(st1, env)

get_artist(st, text, env) ==
    IF ~st.has THEN Ret(st, "RAISED")     \* line 225: KeyError outside the try
    ELSE
      LET artist == Strip(text)
          st1 == [st EXCEPT !.sess.artist = artist, !.sess.keys = @ \cup {"artist"}]
          r == Reply(st1, env, "searching", NoPath)
      IN IF Sent(r) THEN GaSearch(r, env, artist, 0) ELSE GaExcept(r, env)

(***************************************************************************)
(* download_song                                                           *)
(***************************************************************************)
\* lines 385-388
DsExcept(st, env) ==
    LET r == Reply(st, env, "oops_download", NoPath)
    IN IF Sent(r) THEN Ret(r, "SONG_SELECTION") ELSE Ret(r, "RAISED")

\* lines 328-331
DsArtistExcept(st, env) ==
    LET r == Reply(st, env, "oops_artist", NoPath)
    IN IF Sent(r) THEN Ret(r, "ARTIST") ELSE DsExcept(r, env)

\* lines 305-314
RECURSIVE DsSongLoop(_, _, _, _, _, _)
DsSongLoop(st, env, artist, song_list, i, acc) ==
    IF i > Len(song_list) THEN [exc |-> FALSE, st |-> st, songs |-> acc]
    ELSE
      LET y == search_youtube(song_list[i], artist, YtScriptAt(env.yt, i))
          st1 == [st EXCEPT !.yt = Append(@, [song |-> song_list[i], res |-> y])]
          Skip(s) == LET r == Reply(s, env, "skip_error", NoPath)
                     IN IF Sent(r) THEN DsSongLoop(r, env, artist, song_list, i + 1, acc)
                        ELSE [exc |-> TRUE, st |-> r, songs |-> acc]
      IN IF y.out = "url"
         THEN DsSongLoop(st1, env, artist, song_list, i + 1,
                         Append(acc, [name |-> song_list[i], url |-> y.url]))
         ELSE IF y.out = "none"
         THEN LET r == Reply(st1, env, "skip_not_found", NoPath)
              IN IF Sent(r) THEN DsSongLoop(r, env, artist, song_list, i + 1, acc)
                 ELSE Skip(r)
         ELSE Skip(st1)

\* lines 289-331: the input is no number
DsNewArtist(st, user_input, env) ==
    IF ~st.has THEN DsExcept(st, env)     \* line 291: KeyError
    ELSE
      LET st1 == [st EXCEPT !.sess.artist = user_input, !.sess.keys = @ \cup {"artist"}]
          r1 == Reply(st1, env, "searching", NoPath)
          o == SpAt(env.sp, 1)
          st2 == [r1 EXCEPT !.sp = Append(@, o)]
      IN IF ~Sent(r1) THEN DsExcept(r1, env)      \* line 292 is outside the try of 294
         ELSE IF o = "none"
         THEN LET r == Reply(st2, env, "not_found", NoPath)
              IN IF Sent(r) THEN Ret(r, "ARTIST") ELSE DsArtistExcept(r, env)
         ELSE IF o # "found" THEN DsArtistExcept(st2, env)
         ELSE IF env.top < 0 THEN DsArtistExcept([st2 EXCEPT !.top = <<env.top>>], env)
         ELSE
           LET st3 == [st2 EXCEPT !.top = <<env.top>>]
               song_list == Take(TopTracksOf(user_input, env.top), TOP_TRACKS)
               l == DsSongLoop(st3, env, user_input, song_list, 1, <<>>)
           IN IF l.exc THEN DsArtistExcept(l.st, env)
              ELSE IF NotAny(l.songs)
              THEN LET r == Reply(l.st, env, "no_downloadable", NoPath)
                   IN IF Sent(r) THEN Ret(r, "ARTIST") ELSE DsArtistExcept(r, env)
              ELSE LET st4 == [l.st EXCEPT !.sess.songs = l.songs,
                                           !.sess.keys = @ \cup {"songs"}]
                       r == ReplyPlaylist(st4, env, l.songs)
                   IN IF Sent(r) THEN Ret(r, "SONG_SELECTION")
                      ELSE DsArtistExcept(r, env)

\* lines 378-383
DsPlaylist(st, env) ==
    LET r == ReplyPlaylist(st, env, st.sess.songs)
    IN IF Sent(r) THEN Ret(r, "SONG_SELECTION") ELSE DsExcept(r, env)

\* os.remove(audio_path): raises when the file does not exist
OsRemove(st, path) ==
    [st EXCEPT !.disk = RemoveFile(@, path),
               !.removed = Append(@, [path |-> path, ok |-> path \in DOMAIN st.disk])]

\* lines 368-371, then 378-383
DsRemoveAndList(st, env, audio_path) == DsPlaylist(OsRemove(st, audio_path), env)

\* line 336
OutOfRangeUpperOnly(song_idx, songs) == song_idx >= Len(songs)

OutOfRange(song_idx, songs) == song_idx < 0 \/ song_idx >= Len(songs)

\* songs[song_idx], line 340: a list index counts from 0, a negative one from
\* the end of the list.
SongAtFirst(songs, song_idx) == songs[1]

SongAt(songs, song_idx) ==
    IF song_idx >= 0 THEN songs[song_idx + 1] ELSE songs[Len(songs) + song_idx + 1]

\* lines 373-376
DsDlExceptToArtist(st, env) ==
    LET r == Reply(st, env, "download_error", NoPath)
    IN IF Sent(r) THEN Ret(r, "ARTIST") ELSE DsExcept(r, env)

DsDlExcept(st, env) ==
    LET r == Reply(st, env, "download_error", NoPath)
    IN IF Sent(r) THEN Ret(r, "SONG_SELECTION") ELSE DsExcept(r, env)

\* lines 340-383: the selection is in range
DsDownload(st, env, song_idx) ==
    LET song == SongAt(st.sess.songs, song_idx)
        artist == st.sess.artist
        r1 == Reply(st, env, "downloading", NoPath)
        safe_name == SafeName(song.name)
        output_name == artist \o <<"_">> \o safe_name
        f == download_youtube_audio(song.url, output_name, env.dl, r1.disk)
        st1 == [r1 EXCEPT !.disk = f.disk,
                          !.fetch = Append(@, [url |-> song.url, name |-> output_name,
                                               res |-> f])]
    IN IF ~Sent(r1) THEN DsExcept(r1, env)
       ELSE IF f.out = "raise" THEN DsDlExcept(st1, env)
       ELSE IF f.out = "none"
       THEN LET r == Reply(st1, env, "download_failed", NoPath)
            IN IF Sent(r) THEN Ret(r, "SONG_SELECTION") ELSE DsDlExcept(r, env)
       ELSE
         LET audio_path == f.path
             file_size == st1.disk[audio_path]
         IN IF file_size > MAX_FILE_SIZE
            THEN LET r == Reply(st1, env, "too_large", NoPath)
                 IN IF ~Sent(r) THEN DsDlExcept(r, env)
                    ELSE DsRemoveAndList(OsRemove(r, audio_path), env, audio_path)
            ELSE LET ra == Reply(st1, env, "audio", audio_path)
                     rd == Reply(ra, env, "downloaded", NoPath)
                 IN IF ~Sent(ra) THEN DsDlExcept(ra, env)
                    ELSE IF ~Sent(rd) THEN DsDlExcept(rd, env)
                    ELSE DsRemoveAndList(rd, env, audio_path)

\* lines 282-388
download_song(st, text, env) ==
    LET user_input == Strip(text)
        n == ParseInt(user_input)
        song_idx == n.val - 1
    IN IF ~n.ok THEN DsNewArtist(st, user_input, env)
       ELSE IF ~st.has \/ ~({"songs", "artist"} \subseteq st.sess.keys)
       THEN DsExcept(st, env)                     \* lines 333-334: KeyError
       ELSE IF OutOfRange(song_idx, st.sess.songs)
       THEN LET r == Reply(st, env, "invalid_selection", NoPath)
            IN IF Sent(r) THEN Ret(r, "SONG_SELECTION") ELSE DsExcept(r, env)
       ELSE DsDownload(st, env, song_idx)

(***************************************************************************)
(* start, language_selection, cancel                                       *)
(***************************************************************************)
\* lines 189-203
start(st, env) ==
    LET r == Reply(st, env, "hello", NoPath)
        r2 == Reply(r, env, "oops_start", NoPath)
    IN IF Sent(r) THEN Ret(r, "LANGUAGE")
       ELSE IF Sent(r2) THEN Ret(r2, "END") ELSE Ret(r2, "RAISED")

\* lines 206-219; data is the callback data "lang_en" split at "_"
language_selection(st, data, env) ==
    LET a == Reply(st, env, "answer", NoPath)
        lang == data[2]
        st1 == [a EXCEPT !.has = TRUE, !.sess = NewSession(lang)]
        e == Reply(st1, env, "edit_ask_artist", NoPath)
        Except(s) == LET r == Reply(s, env, "oops_language", NoPath)
                     IN IF Sent(r) THEN Ret(r, "END") ELSE Ret(r, "RAISED")
    IN IF ~Sent(a) THEN Except(a)
       ELSE IF ~Sent(e) THEN Except(e)
       ELSE Ret(e, "ARTIST")

\* lines 391-397
cancelForgets(st, env) ==
    Ret(Reply([st EXCEPT !.sess = NewSession(st.sess.lang)], env, "cancelled", NoPath), "END")

cancel(st, env) == Ret(Reply(st, env, "cancelled", NoPath), "END")

(***************************************************************************)
(* The conversation: main(), lines 413-424                                 *)
(***************************************************************************)
Chats == {1}
ArtistTexts == { <<"a">>, <<"b", "/", " ">> }
NumberTexts == { <<"1">>, <<" ", "2">>, <<"0">>, <<"-", "1">> }
Inputs == ArtistTexts \cup NumberTexts

NoEnv == [fail |-> {}, sp |-> <<>>, top |-> 0, yt |-> <<>>, dl |-> <<>>]
NoRun == [handler |-> "", chat |-> 0, text |-> <<>>,
          pre |-> [conv |-> "", st |-> Frame(<<>>, <<>>, 0)],
          st |-> Frame(<<>>, <<>>, 0), ret |-> ""]

Idle == last = NoRun
NoPrev == [handler |-> "", chat |-> 0, text |-> <<>>, urls |-> <<>>]

\* A handler has run for the chat: its effects on user_data and the disk are
\* in place, its result waits in last for the ConversationHandler.
RanSet(name, chat, text, res) ==
    /\ last' = [handler |-> name, chat |-> chat, text |-> text,
                pre |-> [conv |-> conv[chat], st |-> Frame(user_data, disk, chat)],
                st |-> res.st, ret |-> res.ret]
    /\ user_data' = IF res.st.has
                    THEN [c \in DOMAIN user_data \cup {chat} |->
                             IF c = chat THEN res.st.sess ELSE user_data[c]]
                    ELSE user_data
    /\ disk' = res.st.disk
    /\ UNCHANGED <<conv, locIn, locOut, fetIn, fetOut, eqIn, eqOut>>

Ran(name, chat, text, res) == RanSet(name, chat, text, res) /\ UNCHANGED prev

FailSets == SUBSET (1..MaxReplyFail)
SpScripts == {s \in SeqsUpTo(SpOutcomes, MaxSpScript) :
                 \A i \in 1..(Len(s) - 1) : s[i] = "neterr"}
TopsFor(sp) == IF "found" \in Range(sp) THEN (0 - 1)..MaxTracks ELSE {0}
\* For a handler a locate ends in one of two ways: the first entry validates,
\* or there is no entry.  SpecLocate goes through the other scripts.
MainSearchOutcomes == {NoResults, [kind |-> "entries", probes |-> <<"ok">>]}
YtFor(top) == IF top <= 0 THEN {<<>>} ELSE [1..top -> {<<o>> : o \in MainSearchOutcomes}]
DlScripts == {<<o>> : o \in DownloadOutcomes}

Start(chat) ==
    /\ Idle /\ conv[chat] = "END"
    /\ \E F \in FailSets :
         LET env == [NoEnv EXCEPT !.fail = F]
         IN Ran("start", chat, <<>>, start(Frame(user_data, disk, chat), env))

\* the CallbackQueryHandler of the LANGUAGE state, line 416
LanguageSelectionInAnyState(chat) ==
    /\ Idle /\ conv[chat] # "END"
    /\ \E F \in FailSets :
         LET env == [NoEnv EXCEPT !.fail = F]
         IN Ran("language_selection", chat, <<"lang", "en">>,
                language_selection(Frame(user_data, disk, chat), <<"lang", "en">>, env))

LanguageSelection(chat) ==
    /\ Idle /\ conv[chat] = "LANGUAGE"
    /\ \E F \in FailSets :
         LET env == [NoEnv EXCEPT !.fail = F]
         IN Ran("language_selection", chat, <<"lang", "en">>,
                language_selection(Frame(user_data, disk, chat), <<"lang", "en">>, env))

GetArtist(chat) ==
    /\ Idle /\ conv[chat] = "ARTIST"
    /\ \E text \in ArtistTexts, F \in FailSets, sp \in SpScripts :
         \E top \in TopsFor(sp) : \E yt \in YtFor(top) :
           LET env == [fail |-> F, sp |-> sp, top |-> top, yt |-> yt, dl |-> <<>>]
           IN Ran("get_artist", chat, text,
                  get_artist(Frame(user_data, disk, chat), text, env))

DownloadSong(chat) ==
    /\ Idle /\ conv[chat] = "SONG_SELECTION"
    /\ \E text \in Inputs, F \in FailSets :
         IF ParseInt(text).ok
         THEN /\ DOMAIN disk = {}     \* no file was leaked so far
              /\ \E dl \in DlScripts :
                   LET env == [NoEnv EXCEPT !.fail = F, !.dl = dl]
                   IN Ran("download_song", chat, text,
                          download_song(Frame(user_data, disk, chat), text, env))
         ELSE \E sp \in SpScripts : \E top \in TopsFor(sp) : \E yt \in YtFor(top) :
                LET env == [fail |-> F, sp |-> sp, top |-> top, yt |-> yt, dl |-> <<>>]
                IN Ran("download_song", chat, text,
                       download_song(Frame(user_data, disk, chat), text, env))

Cancel(chat) ==
    /\ Idle /\ conv[chat] # "END"
    /\ \E F \in FailSets :
         LET env == [NoEnv EXCEPT !.fail = F]
         IN Ran("cancel", chat, <<>>, cancel(Frame(user_data, disk, chat), env))

\* The ConversationHandler takes the handler's result: the returned state
\* becomes the chat's state; a handler that raised leaves it as it was.
ConvUpdate ==
    /\ ~Idle
    /\ conv' = [conv EXCEPT ![last.chat] = IF last.ret = "RAISED" THEN @ ELSE last.ret]
    /\ last' = NoRun
    /\ UNCHANGED <<user_data, disk, locIn, locOut, fetIn, fetOut, eqIn, eqOut, prev>>

NoLocIn == [song_name |-> <<>>, artist |-> <<>>, script |-> <<>>]
NoLocOut == [out |-> "", url |-> NoUrl, calls |-> <<>>]
NoFetIn == [url |-> NoUrl, output_name |-> <<>>, script |-> <<>>, disk |-> <<>>]
NoFetOut == [out |-> "", path |-> NoPath, calls |-> <<>>, disk |-> <<>>]
NoEqIn == [st |-> Frame(<<>>, <<>>, 0), text |-> <<>>, env |-> NoEnv]
NoEqOut == [ran |-> FALSE, ga |-> Ret(Frame(<<>>, <<>>, 0), ""),
            ds |-> Ret(Frame(<<>>, <<>>, 0), "")]

InitBot ==
    /\ conv = [c \in Chats |-> "END"]
    /\ user_data = <<>>
    /\ disk = <<>>
    /\ last = NoRun
    /\ prev = NoPrev

InitUnits ==
    /\ locIn = NoLocIn /\ locOut = NoLocOut
    /\ fetIn = NoFetIn /\ fetOut = NoFetOut
    /\ eqIn = NoEqIn /\ eqOut = NoEqOut

Init == InitBot /\ InitUnits

Next ==
    \/ \E chat \in Chats : Start(chat)
    \/ \E chat \in Chats : LanguageSelection(chat)
    \/ \E chat \in Chats : GetArtist(chat)
    \/ \E chat \in Chats : DownloadSong(chat)
    \/ \E chat \in Chats : Cancel(chat)
    \/ ConvUpdate

Spec == Init /\ [][Next]_vars

(***************************************************************************)
(* search_youtube on its own: every script of search outcomes              *)
(***************************************************************************)
InitLocate ==
    /\ InitBot
    /\ locIn \in {[song_name |-> t, artist |-> <<"a">>, script |-> sc] :
                    t \in {TrackName(<<"a">>, 1)},
                    sc \in SeqsUpTo(SearchOutcomes, MaxSearchScript)}
    /\ locOut = NoLocOut
    /\ fetIn = NoFetIn /\ fetOut = NoFetOut
    /\ eqIn = NoEqIn /\ eqOut = NoEqOut

Locate ==
    /\ locOut = NoLocOut
    /\ locOut' = search_youtube(locIn.song_name, locIn.artist, locIn.script)
    /\ UNCHANGED <<conv, user_data, disk, last, locIn, fetIn, fetOut, eqIn, eqOut, prev>>

SpecLocate == InitLocate /\ [][Locate]_vars

(***************************************************************************)
(* download_youtube_audio on its own: every script of download outcomes    *)
(***************************************************************************)
StaleDisks(output_name) ==
    {<<>>, WriteFile(<<>>, FilePath(output_name, ".m4a"), MAX_FILE_SIZE)}

InitFetch ==
    /\ InitBot
    /\ locIn = NoLocIn /\ locOut = NoLocOut
    /\ fetIn \in {[url |-> EntryUrl(<<"q">>, 1), output_name |-> <<"a", "_", "a", "1">>,
                   script |-> sc, disk |-> d] :
                    sc \in SeqsUpTo(DownloadOutcomes, MaxFetchScript),
                    d \in StaleDisks(<<"a", "_", "a", "1">>)}
    /\ fetOut = NoFetOut
    /\ eqIn = NoEqIn /\ eqOut = NoEqOut

Fetch ==
    /\ fetOut = NoFetOut
    /\ fetOut' = download_youtube_audio(fetIn.url, fetIn.output_name, fetIn.script,
                                        fetIn.disk)
    /\ UNCHANGED <<conv, user_data, disk, last, locIn, locOut, fetIn, eqIn, eqOut, prev>>

SpecFetch == InitFetch /\ [][Fetch]_vars

(***************************************************************************)
(* Claims about search_youtube (SpecLocate)                                *)
(***************************************************************************)
LocDone == locOut.out # ""
LocQueries == search_queries(locIn.song_name, locIn.artist)
IsProbe(c) == c.op = "probe"
IsSearch(c) == c.op = "search"

\* C2: the locator issues its query templates in declared order, probes each
\* template's results in the order returned, and returns the first candidate
\* whose probe succeeds; after a successful probe nothing more is searched,
\* probed or returned.
ThmC2 ==
    LocDone =>
      LET cs == locOut.calls
      IN /\ cs # <<>> /\ IsSearch(cs[1]) /\ cs[1].q = 1 /\ cs[1].n = 0
         /\ \A i \in 2..Len(cs) :
              IF IsSearch(cs[i])
              THEN \/ cs[i].q = cs[i-1].q + 1 /\ cs[i].n = 0
                   \/ /\ IsSearch(cs[i-1]) /\ cs[i-1].r # "entries"
                      /\ cs[i].q = cs[i-1].q /\ cs[i].n = cs[i-1].n + 1
              ELSE /\ cs[i].q = cs[i-1].q
                   /\ \/ IsSearch(cs[i-1]) /\ cs[i-1].r = "entries" /\ cs[i].n = 1
                      \/ IsProbe(cs[i-1]) /\ cs[i].n = cs[i-1].n + 1
         /\ \A i \in 1..(Len(cs) - 1) : ~(IsProbe(cs[i]) /\ cs[i].r = "ok")
         /\ (locOut.out = "url") = (IsProbe(cs[Len(cs)]) /\ cs[Len(cs)].r = "ok")
         /\ locOut.out = "url" =>
              locOut.url = EntryUrl(LocQueries[cs[Len(cs)].q], cs[Len(cs)].n)

\* C2's case: the first candidate failed its probe and the second validated.
WitC2 ==
    /\ locOut.out = "url" /\ locOut.url.entry = 2
    /\ Len(locOut.calls) = 3 /\ locOut.calls[2].r # "ok"

\* C3 as claimed: a template without a validated candidate is followed by the
\* next template, and when no candidate validated at all the locator has
\* tried every template and returns None instead of raising.
CexC3 ==
    (LocDone /\ \A i \in 1..Len(locOut.calls) : locOut.calls[i].r # "ok") =>
      /\ locOut.out = "none"
      /\ \A q \in 1..Len(LocQueries) :
           \E i \in 1..Len(locOut.calls) : IsSearch(locOut.calls[i]) /\ locOut.calls[i].q = q

FetDone == fetOut.out # ""

\* C5 as claimed: a failed attempt k < 3 is followed by attempt k + 1, an
\* attempt that finds its file ends the fetch with that path, and there are
\* at most 3 attempts.
CexC5 ==
    FetDone =>
      LET cs == fetOut.calls
      IN /\ Len(cs) <= YT_RETRIES
         /\ \A k \in 1..Len(cs) :
              /\ cs[k].attempt = k
              /\ (~cs[k].found /\ k < YT_RETRIES) => k < Len(cs)
              /\ cs[k].found => k = Len(cs) /\ fetOut.out = "path"

(***************************************************************************)
(* get_artist and download_song on the same session, text and providers,   *)
(* with every reply delivered                                              *)
(***************************************************************************)
PlaylistSession(artist) ==
    [keys |-> {"lang", "artist", "songs"}, lang |-> "en", artist |-> artist,
     songs |-> <<[name |-> TrackName(artist, 1),
                  url |-> EntryUrl(search_queries(TrackName(artist, 1), artist)[1], 1)]>>]
EqSessions == {NewSession("en"), PlaylistSession(<<"a">>)}

InitEquiv ==
    /\ InitBot
    /\ locIn = NoLocIn /\ locOut = NoLocOut
    /\ fetIn = NoFetIn /\ fetOut = NoFetOut
    /\ \E sess \in EqSessions, text \in ArtistTexts, sp \in SpScripts :
         \E top \in TopsFor(sp) : \E yt \in YtFor(top) :
           eqIn = [st |-> Frame(1 :> sess, <<>>, 1), text |-> text,
                   env |-> [fail |-> {}, sp |-> sp, top |-> top, yt |-> yt, dl |-> <<>>]]
    /\ eqOut = NoEqOut

Twin ==
    /\ ~eqOut.ran
    /\ eqOut' = [ran |-> TRUE,
                 ga |-> get_artist(eqIn.st, eqIn.text, eqIn.env),
                 ds |-> download_song(eqIn.st, eqIn.text, eqIn.env)]
    /\ UNCHANGED <<conv, user_data, disk, last, locIn, locOut, fetIn, fetOut, eqIn, prev>>

SpecEquiv == InitEquiv /\ [][Twin]_vars

\* The two handlers building a playlist for an artist whose top tracks the
\* provider returns, up to one more than the handlers keep.
InitPlaylist ==
    /\ InitBot
    /\ locIn = NoLocIn /\ locOut = NoLocOut
    /\ fetIn = NoFetIn /\ fetOut = NoFetOut
    /\ \E sess \in EqSessions, top \in 0..MaxTopTracks :
         \E yt \in YtFor(top) :
           eqIn = [st |-> Frame(1 :> sess, <<>>, 1), text |-> <<"a">>,
                   env |-> [fail |-> {}, sp |-> <<"found">>, top |-> top, yt |-> yt,
                            dl |-> <<>>]]
    /\ eqOut = NoEqOut

SpecPlaylist == InitPlaylist /\ [][Twin]_vars

(***************************************************************************)
(* Selections of two users with the same playlist, one after the other     *)
(***************************************************************************)
\* The Application of line 410 is built without concurrent_updates: updates
\* are handled one at a time, each handler run to its end before the next.
SelChats == {1, 2}
SelTexts == { <<"1">>, <<"2">> }

InitSelect ==
    /\ conv = [c \in SelChats |-> "SONG_SELECTION"]
    /\ user_data = [c \in SelChats |-> PlaylistSession(<<"a">>)]
    /\ disk = <<>>
    /\ last = NoRun
    /\ prev = NoPrev
    /\ InitUnits

Select(chat) ==
    /\ conv[chat] = "SONG_SELECTION"
    /\ \E text \in SelTexts, F \in FailSets, dl \in DlScripts :
         LET env == [NoEnv EXCEPT !.fail = F, !.dl = dl]
         IN RanSet("download_song", chat, text,
                   download_song(Frame(user_data, disk, chat), text, env))
    /\ prev' = [handler |-> last.handler, chat |-> last.chat, text |-> last.text,
                urls |-> [k \in 1..Len(last.st.fetch) |-> last.st.fetch[k].url]]

SpecSelect == InitSelect /\ [][\E chat \in SelChats : Select(chat)]_vars

RanHandler(name) == last.handler = name
\* The state the conversation is in after the run.
NextState == IF last.ret = "RAISED" THEN last.pre.conv ELSE last.ret
Replied(kinds) == \E i \in 1..Len(last.st.replies) : last.st.replies[i].kind \in kinds
NoneLocated == \A i \in 1..Len(last.st.yt) : last.st.yt[i].res.out # "url"

\* C1: when get_artist finds no artist, or no top track has a source, it
\* issues a failure reply, leaves the session's playlist as it was, and the
\* next state is ARTIST.
ThmC1 ==
    (/\ RanHandler("get_artist") /\ last.pre.st.has
     /\ \/ last.st.sp # <<>> /\ last.st.sp[Len(last.st.sp)] = "none"
        \/ last.st.top # <<>> /\ last.st.top[1] >= 0 /\ NoneLocated)
    => /\ Replied({"not_found", "no_downloadable", "oops_artist"})
       /\ last.st.sess.songs = last.pre.st.sess.songs
       /\ ("songs" \in last.st.sess.keys) = ("songs" \in last.pre.st.sess.keys)
       /\ NextState = "ARTIST"

\* C1's case: the artist has top tracks and none of them has a source.
WitC1 ==
    /\ RanHandler("get_artist")
    /\ last.st.top # <<>> /\ last.st.top[1] >= 1 /\ NoneLocated
    /\ Len(last.st.yt) = last.st.top[1]
    /\ Replied({"no_downloadable"}) /\ last.ret = "ARTIST"

Fetched == RanHandler("download_song") /\ last.st.fetch # <<>>
FetchRes == last.st.fetch[1].res

\* C6 as claimed: after a selection whose fetch failed, the fetch has left no
\* file on the disk and the conversation stays in SONG_SELECTION.
CexC6 ==
    (Fetched /\ FetchRes.out \in {"none", "raise"}) =>
      /\ last.st.disk = last.pre.st.disk
      /\ NextState = "SONG_SELECTION"

\* C7 as claimed: after a selection whose fetch produced a file, that file
\* no longer exists when the handler returns.
CexC7 ==
    (Fetched /\ FetchRes.out = "path") => FetchRes.path \notin DOMAIN last.st.disk

\* C8 as claimed: a fetched file larger than MAX_FILE_SIZE is never passed to
\* reply_audio, the too-large reply is issued, and no file remains.
CexC8 ==
    (Fetched /\ FetchRes.out = "path" /\ FetchRes.disk[FetchRes.path] > MAX_FILE_SIZE) =>
      /\ ~Replied({"audio"})
      /\ Replied({"too_large"})
      /\ last.st.disk = last.pre.st.disk

\* The playlist was resolved for the artist: every entry is a track of the
\* artist, with a URL found by a query for that track and artist.
IsTrackOf(artist, name) ==
    /\ Len(name) > Len(artist) + 1
    /\ SubSeq(name, 1, Len(artist)) = artist
    /\ name[Len(artist) + 1] = "#"
ResolvedFor(artist, songs) ==
    \A i \in 1..Len(songs) :
      /\ IsTrackOf(artist, songs[i].name)
      /\ songs[i].url.query \in Range(search_queries(songs[i].name, artist))

\* C9 as claimed: whenever a conversation is in SONG_SELECTION, the stored
\* playlist is the one resolved for the stored artist.
CexC9 ==
    \A c \in Chats :
      (Idle /\ conv[c] = "SONG_SELECTION" /\ c \in DOMAIN user_data) =>
        ResolvedFor(user_data[c].artist, user_data[c].songs)

(***************************************************************************)
(* Claims about numeric selections (Spec)                                  *)
(***************************************************************************)
Selected == RanHandler("download_song") /\ ParseInt(last.text).ok
SelectedNumber == ParseInt(last.text).val
PreSongs == last.pre.st.sess.songs
SessionUnchanged == last.st.has = last.pre.st.has /\ last.st.sess = last.pre.st.sess

\* C11: a number below 1 or above the length of the playlist starts no
\* download, is answered with the invalid-selection reply, leaves the
\* conversation in SONG_SELECTION and the session as it was.
ThmC11 ==
    (Selected /\ (SelectedNumber < 1 \/ SelectedNumber > Len(PreSongs))) =>
      /\ last.st.fetch = <<>> /\ last.st.disk = last.pre.st.disk
      /\ last.st.replies # <<>> /\ last.st.replies[1].kind = "invalid_selection"
      /\ NextState = "SONG_SELECTION"
      /\ SessionUnchanged

\* C11's case: the number 0, which as a list index would be -1.
WitC11 ==
    /\ Selected /\ SelectedNumber = 0 /\ Len(PreSongs) >= 1
    /\ last.ret = "SONG_SELECTION"

\* C12: a number within the playlist leaves the conversation in
\* SONG_SELECTION and the session as it was, however the download and the
\* delivery end.
ThmC12 ==
    (Selected /\ SelectedNumber >= 1 /\ SelectedNumber <= Len(PreSongs)) =>
      /\ NextState = "SONG_SELECTION"
      /\ SessionUnchanged

\* C12's case: the download raised and the handler reported it.
WitC12 ==
    /\ Fetched /\ FetchRes.out = "raise"
    /\ Replied({"download_error"}) /\ last.ret = "SONG_SELECTION"

(***************************************************************************)
(* Claims about cancel and about escaping exceptions (Spec)                *)
(***************************************************************************)
HoldsArtistOrPlaylist(chat) ==
    /\ chat \in DOMAIN user_data
    /\ user_data[chat].keys \cap {"artist", "songs"} # {}

\* C13 as claimed: after cancel the conversation ends and the session store no
\* longer holds the user's artist query or playlist.
CexC13 ==
    RanHandler("cancel") =>
      /\ last.ret = "END"
      /\ ~HoldsArtistOrPlaylist(last.chat)

\* C13: cancel ends the conversation from every state, whether or not its
\* reply is delivered, and leaves the user's session entry exactly as it was.
ThmC13 ==
    RanHandler("cancel") =>
      /\ last.ret = "END"
      /\ SessionUnchanged
      /\ last.st.has => /\ last.chat \in DOMAIN user_data
                        /\ user_data[last.chat] = last.pre.st.sess

\* C13's case: cancel in SONG_SELECTION, with a playlist in the session.
WitC13 ==
    /\ RanHandler("cancel") /\ last.pre.conv = "SONG_SELECTION"
    /\ last.ret = "END" /\ HoldsArtistOrPlaylist(last.chat)
    /\ user_data[last.chat].songs # <<>>

\* C14 as claimed: no exception leaves a handler: every run ends with a
\* conversation state and has issued a reply.
CexC14 ==
    ~Idle => (last.ret # "RAISED" /\ last.st.replies # <<>>)

\* C15 as claimed: the artist lookup of get_artist is tried at most
\* SPOTIFY_RETRIES times, again after every transient network failure short of
\* the last attempt, and never again after another outcome.
CexC15 ==
    RanHandler("get_artist") =>
      /\ Len(last.st.sp) <= 3
      /\ \A k \in 1..Len(last.st.sp) :
           /\ (last.st.sp[k] = "neterr" /\ k < 3) => Len(last.st.sp) > k
           /\ last.st.sp[k] # "neterr" => Len(last.st.sp) = k

(***************************************************************************)
(* Claims about the playlist (SpecPlaylist)                                *)
(***************************************************************************)
\* The track the provider ranks i-th is located under the environment of eqIn.
LocatedAt(i) ==
    search_youtube(TrackName(Strip(eqIn.text), i), Strip(eqIn.text),
                   YtScriptAt(eqIn.env.yt, i))
RanksUpTo(n) == [i \in 1..n |-> i]
IsLocated(i) == LocatedAt(i).out = "url"
LocatedRanks == SelectSeq(RanksUpTo(Min(eqIn.env.top, 10)), IsLocated)
PlaylistOf(r) ==
    LET songs == r.st.sess.songs
        shown == r.st.replies[Len(r.st.replies)]
    IN r.ret = "SONG_SELECTION" =>
         /\ Len(songs) <= 10
         /\ Len(songs) = Len(LocatedRanks)
         /\ \A k \in 1..Len(songs) :
              /\ songs[k].name = TrackName(Strip(eqIn.text), LocatedRanks[k])
              /\ songs[k].url = LocatedAt(LocatedRanks[k]).url
         /\ shown.kind = "playlist" /\ Len(shown.lines) = Len(songs)
         /\ \A k \in 1..Len(songs) :
              shown.lines[k] = [idx |-> k, song_name |-> songs[k].name]

\* C16: the playlist get_artist and download_song store and show has at most
\* 10 entries, numbered from 1, and is the provider's first 10 tracks, in
\* provider order, without those the locator found no source for.
ThmC16 == eqOut.ran => (PlaylistOf(eqOut.ga) /\ PlaylistOf(eqOut.ds))

\* C16's case: the provider returns 11 tracks, the locator finds the 1st, not
\* the 2nd, and the 11th; the playlist has 9 entries.
WitC16 ==
    /\ eqOut.ran /\ eqIn.env.top = 11
    /\ IsLocated(1) /\ ~IsLocated(2) /\ IsLocated(11)
    /\ eqOut.ga.ret = "SONG_SELECTION" /\ eqOut.ds.ret = "SONG_SELECTION"
    /\ Len(eqOut.ga.st.sess.songs) = 9 /\ Len(eqOut.ds.st.sess.songs) = 9

(***************************************************************************)
(* Claims about what a selection downloads (Spec)                          *)
(***************************************************************************)
\* C17: a number n within the playlist starts at most one download, exactly
\* one once the "downloading" reply went out, and that download is for the
\* n-th entry of the playlist, from the url stored with the entry.
ThmC17 ==
    (Selected /\ SelectedNumber >= 1 /\ SelectedNumber <= Len(PreSongs)) =>
      /\ Len(last.st.fetch) <= 1
      /\ last.st.replies[1].kind = "downloading"
      /\ last.st.replies[1].ok => Len(last.st.fetch) = 1
      /\ \A k \in 1..Len(last.st.fetch) :
           /\ last.st.fetch[k].url = PreSongs[SelectedNumber].url
           /\ last.st.fetch[k].name =
                last.pre.st.sess.artist \o <<"_">> \o SafeName(PreSongs[SelectedNumber].name)
           /\ last.st.fetch[k].res.calls # <<>>

\* C17's case: the second of two entries is selected and downloaded.
WitC17 ==
    /\ Selected /\ SelectedNumber = 2 /\ Len(PreSongs) = 2
    /\ Fetched /\ FetchRes.out = "path" /\ Replied({"audio"})

\* C19 as claimed: the file name handed to download_youtube_audio consists of
\* alphanumeric characters, spaces, underscores and hyphens only, so that the
\* file is created directly inside TEMP_DIR.
CexC19 ==
    Fetched =>
      \A i \in 1..Len(last.st.fetch[1].name) :
        \/ IsAlnum(last.st.fetch[1].name[i])
        \/ last.st.fetch[1].name[i] \in {" ", "_", "-"}

(***************************************************************************)
(* Claims about repeated and neighbouring selections (SpecSelect)          *)
(***************************************************************************)
\* The file the download of the last run returned was written by that download.
OwnArtifact ==
    \E k \in 1..Len(FetchRes.calls) :
      FetchRes.calls[k].ext # "" /\ FetchRes.path = FilePath(last.st.fetch[1].name, FetchRes.calls[k].ext)
\* Every file the last run measured, sent or removed is the one it downloaded.
OnlyOwnArtifact ==
    /\ FetchRes.out = "path" => OwnArtifact
    /\ \A i \in 1..Len(last.st.replies) :
         last.st.replies[i].kind = "audio" => (last.st.replies[i].path = FetchRes.path /\ OwnArtifact)
    /\ \A i \in 1..Len(last.st.removed) :
         last.st.removed[i].path = FetchRes.path /\ OwnArtifact

\* C18 as claimed: when a user selects the same entry twice in a row and both
\* selections reach the download, the second downloads from the same url and
\* what it returns is its own download, not the file of the first.
CexC18 ==
    (/\ Fetched /\ prev.handler = "download_song"
     /\ prev.chat = last.chat /\ prev.text = last.text /\ prev.urls # <<>>) =>
      /\ last.st.fetch[1].url = prev.urls[1]
      /\ FetchRes.calls # <<>>
      /\ FetchRes.out = "path" => OwnArtifact

\* C20 as claimed: when the selections of two different users are handled,
\* each handling measures, sends and removes only the file it downloaded
\* itself, also when both selected the same artist and title.
CexC20 ==
    (Fetched /\ prev.handler = "download_song" /\ prev.chat # last.chat) =>
      OnlyOwnArtifact

(***************************************************************************)
(* Claims about the session of a conversation in SONG_SELECTION (Spec)     *)
(***************************************************************************)
HoldsPlaylist(c) ==
    /\ c \in DOMAIN user_data
    /\ {"artist", "songs"} \subseteq user_data[c].keys
    /\ user_data[c].songs # <<>>

====
